---------------------------- MODULE Spec2Model ----------------------------
(***************************************************************************)
(* A model of gdrivefs/gdtool/drive.py: the retrying proxy                 *)
(* (_GoogleProxy.__getattr__.proxied_method) and the operations of         *)
(* _GdriveManager that sit behind it (list_changes,                        *)
(* get_children_under_parent_id, list_files) together with the memoized    *)
(* client of GdriveAuth.get_client.                                        *)
(***************************************************************************)
EXTENDS Integers, Sequences, FiniteSets, TLC

VARIABLES
    \* ---- one proxied call (proxied_method) ----
    pc,            \* "idle" | "loop" | "done": position of the proxied call
    n,             \* the loop variable of "for n in range(0, 5)"
    auto_refresh,  \* the auto_refresh argument of the call
    error,         \* the local variable "error" (json.loads(e.content)), or Unbound
    attempts,      \* outcomes of the invocations method(**kwargs), in order
    sleeps,        \* time.sleep calls: [after |-> attempt number, secs |-> seconds]
    refreshes,     \* attempt numbers after which check_credential_state() ran
    result,        \* what the call gave its caller
    \* ---- GdriveAuth / _GdriveManager ----
    client,        \* GdriveAuth.__client: None or "client"
    hidden_flags,  \* Conf.get('hidden_flags_list_remote')
    op,            \* the manager operation in progress / last finished
    args,          \* its arguments
    network,       \* network round trips issued by the current operation, in order
    page_token,    \* list_files: local page_token
    page_num,      \* list_files: local page_num
    entries,       \* list_files: local entries
    query,         \* list_files: local query
    served,        \* list_files: the pages the service answered with, in order
    mresult,       \* what the manager operation gave its caller
    response,      \* list_changes: the response of the service to the last request
    feed,          \* change-feed traversal: the change ids of the pages returned so far
    cursor,        \* change-feed traversal: the page token its next call passes
    \* ---- download_to_local ----
    file,          \* the local file at output_file_path
    clock,         \* time.time(), in seconds
    dl,            \* the last invocation of download_to_local
    \* ---- drive_proxy / get_client in several execution contexts ----
    instance,      \* the module global _instance: None or a proxy number
    proxies,       \* the _GoogleProxy objects constructed so far: proxies[i]
                   \* is GdriveAuth.__client of the i-th (None or a client number)
    builds,        \* calls of build() so far (each fetches the discovery document)
    ctx,           \* per execution context: its position and its locals
    \* ---- update_entry, rename, truncate, get_entry, remove_entry ----
    ecall,         \* the last of these operations: arguments, request, result
    \* ---- operations that run other operations through the proxy ----
    tries,         \* proxied list_files: the pages served to each finished
                   \* invocation of the current call, in order
    nest           \* get_entries: its loop and the proxied get_entry inside it

proxyVars == <<pc, n, auto_refresh, error, attempts, sleeps, refreshes, result>>
mgrVars   == <<client, hidden_flags, op, args, network, page_token, page_num,
               entries, query, served, mresult, response, feed, cursor>>
dlVars    == <<file, clock, dl>>
ctxVars   == <<instance, proxies, builds, ctx>>
nestVars  == <<tries, nest>>
extVars   == <<dlVars, ctxVars, ecall, nestVars>>
vars      == <<proxyVars, mgrVars, extVars>>

None == "None"

-----------------------------------------------------------------------------
(* Bounds of the model *)

MaxItems     == 2  \* items per page of the change feed
MaxId        == 2  \* change ids are drawn from 0..MaxId
MaxPages     == 3  \* pages the service serves to one list_files call
MaxFeedPages == 2  \* pages of one change-feed traversal
MaxTime      == 3  \* the clock and the remote modification times run over 0..MaxTime
MaxChunks    == 2  \* chunks of one download
MaxBuilds    == 4  \* calls of build() in one run
MaxContexts  == 2  \* execution contexts that call drive_proxy concurrently
MaxIds       == 2  \* entry ids of one get_entries call


-----------------------------------------------------------------------------
(* The retrying proxy: _GoogleProxy.__getattr__.proxied_method *)

Attempts == 5      \* range(0, 5)

\* Values the underlying method can return (None: truncate, remove_entry).
Values == {"v1", "v2", None}

\* except (ssl.SSLError, httplib.BadStatusLine)
TransientErrors == {"SSLError", "BadStatusLine"}

\* Exceptions of the underlying method that no except clause names.
OtherErrors == {"ExportFormatError", "NameError", "Exception", "TypeError"}

\* e.content of an HttpError, as proxied_method reads it: json says whether
\* json.loads accepts it; code is error.get('code') of the decoded object
\* itself; has_errors says whether error.get('errors') is a list with a first
\* element, whose 'reason' is reason.
Body(j, c, h, r) == [json |-> j, code |-> c, has_errors |-> h, reason |-> r]

MalformedBody == Body(FALSE, 0, FALSE, "")

Bodies ==
    { MalformedBody,
      Body(TRUE, 403, TRUE, "rateLimitExceeded"),
      Body(TRUE, 403, TRUE, "userRateLimitExceeded"),
      Body(TRUE, 403, TRUE, "forbidden"),
      Body(TRUE, 403, FALSE, ""),
      Body(TRUE, 404, TRUE, "notFound"),
      Body(TRUE, 500, FALSE, "") }

\* An outcome of one invocation of method(**kwargs).
Outcome(k, v, b) == [kind |-> k, val |-> v, body |-> b]
NoBody == Body(FALSE, -1, FALSE, "")

\* The local variable error before its first assignment.
Unbound == Body(FALSE, -2, FALSE, "<unbound>")

Ok(v)          == Outcome("ok", v, NoBody)
Transient(c)   == Outcome("transient", c, NoBody)
Http(b)        == Outcome("http", "HttpError", b)
AuthFault      == Outcome("authfault", "AuthorizationFaultError", NoBody)
Other(x)       == Outcome("other", x, NoBody)

\* What a call gives its caller; att is the attempt whose value or error it
\* is (0: none of them).
Returned(v, a) == [kind |-> "return", val |-> v, att |-> a]
Raised(x, a)   == [kind |-> "raise", val |-> x, att |-> a]
NoResult       == [kind |-> "none", val |-> "", att |-> 0]

\* A variant of IsRateLimit that knows one of the two reasons only.
IsRateLimitFirstReasonOnly(err) ==
    /\ err.code = 403
    /\ err.reason = "rateLimitExceeded"

\* error.get('code') == 403 and error.get('errors')[0].get('reason') in
\* ['rateLimitExceeded', 'userRateLimitExceeded'], for a bound error whose
\* 'errors' can be indexed.
IsRateLimit(err) ==
    /\ err.code = 403
    /\ err.reason \in {"rateLimitExceeded", "userRateLimitExceeded"}

\* "if not auto_refresh or n == 1: raise"
MustRaiseAuthFault(ar, k) == ~ar \/ k = 1

RECURSIVE Pow2(_)
Pow2(k) == IF k = 0 THEN 1 ELSE 2 * Pow2(k - 1)

\* random.randint(0, 1000) / 1000 is an integer division: 0, or 1 for 1000.
Jitters == {0, 1}

\* A variant of Backoff that grows linearly with the attempt.
BackoffLinear(k, j) == 2 * k + j

\* time.sleep((2 ** n) + random.randint(0, 1000) / 1000)
Backoff(k, j) == Pow2(k) + j

\* The end of one loop iteration that neither returned nor raised: the next
\* iteration, or the end of the for loop and of the function body, which
\* returns None.
NextIteration ==
    IF n + 1 < Attempts
    THEN /\ pc' = "loop"
         /\ n' = n + 1
         /\ result' = result
    ELSE /\ pc' = "done"
         /\ n' = n
         /\ result' = Returned(None, 0)

Raise(x, a) ==
    /\ pc' = "done"
    /\ n' = n
    /\ result' = Raised(x, a)

ProxyInit ==
    /\ pc = "idle"
    /\ n = 0
    /\ auto_refresh = TRUE
    /\ error = Unbound
    /\ attempts = <<>>
    /\ sleeps = <<>>
    /\ refreshes = <<>>
    /\ result = NoResult

\* drive_proxy(action, auto_refresh, **kwargs): a new call of proxied_method.
StartCall(ar) ==
    /\ pc \in {"idle", "done"}
    /\ pc' = "loop"
    /\ n' = 0
    /\ auto_refresh' = ar
    /\ error' = Unbound
    /\ attempts' = <<>>
    /\ sleeps' = <<>>
    /\ refreshes' = <<>>
    /\ result' = NoResult

\* return method(**kwargs)
Returns(v) ==
    /\ pc = "loop"
    /\ attempts' = Append(attempts, Ok(v))
    /\ pc' = "done"
    /\ n' = n
    /\ result' = Returned(v, Len(attempts) + 1)
    /\ UNCHANGED <<auto_refresh, error, sleeps, refreshes>>

\* except (ssl.SSLError, httplib.BadStatusLine): sleep, next iteration
CatchTransient(c, j) ==
    /\ pc = "loop"
    /\ attempts' = Append(attempts, Transient(c))
    /\ sleeps' = Append(sleeps, [after |-> Len(attempts) + 1,
                                 secs |-> Backoff(n, j)])
    /\ NextIteration
    /\ UNCHANGED <<auto_refresh, error, refreshes>>

\* except HttpError: error is assigned only when json.loads accepts the
\* content; the test that follows reads whatever error holds.
CatchHttpError(b, j) ==
    /\ pc = "loop"
    /\ attempts' = Append(attempts, Http(b))
    /\ error' = IF b.json THEN b ELSE error
    /\ IF error' = Unbound
       THEN \* error.get: local variable referenced before assignment
            /\ Raise("UnboundLocalError", 0)
            /\ sleeps' = sleeps
       ELSE IF error'.code = 403 /\ ~error'.has_errors
       THEN \* error.get('errors')[0] on a missing list
            /\ Raise("TypeError", 0)
            /\ sleeps' = sleeps
       ELSE IF IsRateLimit(error')
       THEN /\ sleeps' = Append(sleeps, [after |-> Len(attempts) + 1,
                                         secs |-> Backoff(n, j)])
            /\ NextIteration
       ELSE \* Other error, re-raise.
            /\ Raise("HttpError", Len(attempts) + 1)
            /\ sleeps' = sleeps
    /\ UNCHANGED <<auto_refresh, refreshes>>

\* except AuthorizationFaultError
CatchAuthFault ==
    /\ pc = "loop"
    /\ attempts' = Append(attempts, AuthFault)
    /\ IF MustRaiseAuthFault(auto_refresh, n)
       THEN /\ Raise("AuthorizationFaultError", Len(attempts) + 1)
            /\ refreshes' = refreshes
       ELSE \* get_auth().check_credential_state(), then the next iteration
            /\ refreshes' = Append(refreshes, Len(attempts) + 1)
            /\ NextIteration
    /\ UNCHANGED <<auto_refresh, error, sleeps>>

\* Any other exception of the method leaves proxied_method as it is.
Propagate(x) ==
    /\ pc = "loop"
    /\ attempts' = Append(attempts, Other(x))
    /\ Raise(x, Len(attempts) + 1)
    /\ UNCHANGED <<auto_refresh, error, sleeps, refreshes>>

\* What proxied_method does with the outcome o of method(**kwargs).
Handle(o, j) ==
    CASE o.kind = "ok"        -> Returns(o.val)
      [] o.kind = "transient" -> CatchTransient(o.val, j)
      [] o.kind = "http"      -> CatchHttpError(o.body, j)
      [] o.kind = "authfault" -> CatchAuthFault
      [] o.kind = "other"     -> Propagate(o.val)

\* The same steps for a method whose own state the model does not follow.
ProxyCall(ar)         == StartCall(ar) /\ UNCHANGED <<mgrVars, extVars>>
InvokeReturns(v)      == Returns(v) /\ UNCHANGED <<mgrVars, extVars>>
InvokeTransient(c, j) == CatchTransient(c, j) /\ UNCHANGED <<mgrVars, extVars>>
InvokeHttpError(b, j) == CatchHttpError(b, j) /\ UNCHANGED <<mgrVars, extVars>>
InvokeAuthFault       == CatchAuthFault /\ UNCHANGED <<mgrVars, extVars>>
InvokeOtherError(x)   == Propagate(x) /\ UNCHANGED <<mgrVars, extVars>>

ProxyNext ==
    \/ \E ar \in BOOLEAN : ProxyCall(ar)
    \/ \E v \in Values : InvokeReturns(v)
    \/ \E c \in TransientErrors, j \in Jitters : InvokeTransient(c, j)
    \/ \E b \in Bodies, j \in Jitters : InvokeHttpError(b, j)
    \/ InvokeAuthFault
    \/ \E x \in OtherErrors : InvokeOtherError(x)

-----------------------------------------------------------------------------
(* GdriveAuth.get_client and the operations of _GdriveManager *)

\* Python truth value of an optional string argument: None and '' are false.
Truthy(x) == x # None /\ x # ""

\* Arguments a caller passes for query_contains_string / query_is_string.
QueryStrings == {None, "a"}
ParentIds    == {None, "p"}

\* Conf.get('hidden_flags_list_remote')
FlagConfigs == { <<>>, <<"trashed">>, <<"trashed", "hidden">> }

NoToken    == "<no nextPageToken>"
PageTokens == {"t1", "t2"}

\* A network round trip: the discovery fetch of build(), or one execute().
Request(r, q, t) == [req |-> r, q |-> q, token |-> t]

\* ' and '.join(query_components) if query_components else None: the query is
\* kept as the list of its conjuncts; none says that it is None.
Query(components)   == [none |-> components = <<>>, conj |-> components]
NoQuery             == Query(<<>>)

\* One conjunct of a query: "<what> <arg>"; escaped says that arg went through
\* escape_filename_for_query.
Conjunct(what, arg, esc) == [what |-> what, arg |-> arg, escaped |-> esc]

MReturned(data, tok, largest) ==
    [kind |-> "return", val |-> tok, data |-> data, largest |-> largest]
MRaised(x)  == [kind |-> "raise", val |-> x, data |-> <<>>, largest |-> 0]
MNoResult   == [kind |-> "none", val |-> "", data |-> <<>>, largest |-> 0]

\* get_client: "if self.__client is None" the client is built, which fetches
\* the discovery description; an HttpError of build() is re-raised and
\* __client stays None.
DiscoveryFetch == IF client = None
                  THEN << Request("discovery", NoQuery, NoToken) >>
                  ELSE << >>
GetClientRaises(buildOk) == client = None /\ ~buildOk
ClientAfter(buildOk) == IF client = None /\ buildOk THEN "client" ELSE client

\* Whether build() succeeds, where get_client calls it.
BuildOutcomes == IF client = None THEN BOOLEAN ELSE {TRUE}

\* A raise statement without an expression and without an exception being
\* handled in the frame: TypeError, or the exception a caller is handling.
BareRaiseErrors == {"TypeError", "<exception being handled by a caller>"}

\* Both arguments given: the test of line 179.
MutuallyExclusive(qc, qi) == Truthy(qc) /\ Truthy(qi)

\* The title conjunct of get_children_under_parent_id and of list_files.
TitleComponents(qc, qi) ==
    IF Truthy(qi) THEN << Conjunct("title=", qi, TRUE) >>
    ELSE IF Truthy(qc) THEN << Conjunct("title contains", qc, TRUE) >>
    ELSE << >>

ChildIdLists == { <<>>, <<"a">>, <<"a", "b">> }

NoArgs     == [qc |-> None, qi |-> None, parent |-> None]
NoResponse == [served |-> FALSE, items |-> <<>>, next |-> NoToken, largest |-> 0]

\* The locals of list_files before it runs (and after it has returned).
NoListFilesLocals ==
    /\ page_token' = None
    /\ page_num' = 0
    /\ entries' = <<>>
    /\ query' = NoQuery
    /\ served' = <<>>

MgrInit ==
    /\ client = None
    /\ hidden_flags \in FlagConfigs
    /\ op = "none"
    /\ args = NoArgs
    /\ network = <<>>
    /\ page_token = None
    /\ page_num = 0
    /\ entries = <<>>
    /\ query = NoQuery
    /\ served = <<>>
    /\ mresult = MNoResult
    /\ response = NoResponse
    /\ feed = <<>>
    /\ cursor = NoToken

\* No operation is in the middle of its loop.
Idle == op = "none" \/ mresult.kind # "none"

\* get_children_under_parent_id(parent_id, query_contains_string,
\* query_is_string): the client first, then the test of the arguments, then
\* the one children().list request.
GetChildrenUnderParentId(parent, qc, qi) ==
    /\ Idle
    /\ op' = "get_children_under_parent_id"
    /\ args' = [qc |-> qc, qi |-> qi, parent |-> parent]
    /\ \E buildOk \in BuildOutcomes :
         /\ client' = ClientAfter(buildOk)
         /\ IF GetClientRaises(buildOk)
            THEN /\ network' = DiscoveryFetch
                 /\ mresult' = MRaised("HttpError")
            ELSE IF MutuallyExclusive(qc, qi)
            THEN /\ network' = DiscoveryFetch
                 /\ \E x \in BareRaiseErrors : mresult' = MRaised(x)
            ELSE /\ network' = DiscoveryFetch \o
                     << Request("children.list",
                                Query(TitleComponents(qc, qi)), NoToken) >>
                 /\ \/ \E ids \in ChildIdLists :
                          mresult' = MReturned(ids, NoToken, 0)
                    \/ mresult' = MRaised("HttpError")
    /\ NoListFilesLocals
    /\ UNCHANGED <<hidden_flags, response, feed, cursor>>
    /\ UNCHANGED <<proxyVars, extVars>>

\* NormalEntry(source, raw): the normalized entry built from a raw one.
NormalEntry(source, raw) == [normalized_by |-> source, raw |-> raw]

RECURSIVE NormalizeAll(_, _)
NormalizeAll(source, items) ==
    IF items = <<>> THEN <<>>
    ELSE << NormalEntry(source, Head(items)) >>
         \o NormalizeAll(source, Tail(items))

\* Lines 256-275 of list_files: the conjuncts of the query, in order.
RECURSIVE HiddenComponents(_)
HiddenComponents(flags) ==
    IF flags = <<>> THEN <<>>
    ELSE << Conjunct(Head(flags), "= false", FALSE) >>
         \o HiddenComponents(Tail(flags))

\* A variant of QueryComponents that adds the hidden flags only when no title
\* filter is given.
QueryComponentsFlagsUnlessTitle(parent, qc, qi, flags) ==
    (IF Truthy(parent) THEN << Conjunct("in parents", parent, FALSE) >>
     ELSE << >>)
    \o (IF TitleComponents(qc, qi) # << >> THEN TitleComponents(qc, qi)
        ELSE HiddenComponents(flags))

QueryComponents(parent, qc, qi, flags) ==
    (IF Truthy(parent) THEN << Conjunct("in parents", parent, FALSE) >>
     ELSE << >>)
    \o TitleComponents(qc, qi)
    \o HiddenComponents(flags)

\* The items of one page of a file listing.
ItemLists == { <<>>, <<"a">>, <<"a", "b">>, <<"b", "a">> }

\* A variant of ListFilesEnter that keeps the page token, the page number
\* and the entries of the invocation before.
ListFilesEnterKeepsLocals(parent, qc, qi, buildOk) ==
    /\ Idle
    /\ buildOk \in BuildOutcomes
    /\ op' = "list_files"
    /\ args' = [qc |-> qc, qi |-> qi, parent |-> parent]
    /\ client' = ClientAfter(buildOk)
    /\ network' = DiscoveryFetch
    /\ served' = <<>>
    /\ IF GetClientRaises(buildOk)
       THEN /\ mresult' = MRaised("HttpError")
            /\ query' = NoQuery
       ELSE /\ mresult' = MNoResult
            /\ query' = Query(QueryComponents(parent, qc, qi, hidden_flags))
    /\ UNCHANGED <<page_token, page_num, entries>>
    /\ UNCHANGED <<hidden_flags, response, feed, cursor>>

\* list_files up to its loop: the client, the query, the three locals.
ListFilesEnter(parent, qc, qi, buildOk) ==
    /\ Idle
    /\ buildOk \in BuildOutcomes
    /\ op' = "list_files"
    /\ args' = [qc |-> qc, qi |-> qi, parent |-> parent]
    /\ client' = ClientAfter(buildOk)
    /\ network' = DiscoveryFetch
    /\ served' = <<>>
    /\ IF GetClientRaises(buildOk)
       THEN /\ mresult' = MRaised("HttpError")
            /\ query' = NoQuery
       ELSE /\ mresult' = MNoResult
            /\ query' = Query(QueryComponents(parent, qc, qi, hidden_flags))
    /\ page_token' = None
    /\ page_num' = 0
    /\ entries' = <<>>
    /\ UNCHANGED <<hidden_flags, response, feed, cursor>>

ListingFiles == op = "list_files" /\ mresult.kind = "none"

\* One iteration of "while 1": the request for a page, its entries appended,
\* then the break or the next page token.  tok = NoToken: the result has no
\* nextPageToken.
ListFilesIteration(items, tok) ==
    /\ ListingFiles
    /\ Len(served) < MaxPages
    /\ Len(served) + 1 = MaxPages => tok = NoToken
    /\ network' = Append(network, Request("files.list", query, page_token))
    /\ served' = Append(served, [items |-> items, next |-> tok])
    /\ entries' = entries \o NormalizeAll("list_files", items)
    /\ IF tok = NoToken
       THEN /\ mresult' = MReturned(entries', NoToken, 0)
            /\ UNCHANGED <<page_token, page_num>>
       ELSE /\ page_token' = tok
            /\ page_num' = page_num + 1
            /\ mresult' = mresult
    /\ UNCHANGED <<client, hidden_flags, op, args, query, response, feed, cursor>>

\* execute() (or NormalEntry) raises in the loop: list_files raises it.
ListFilesRaises(x) ==
    /\ ListingFiles
    /\ Len(served) < MaxPages
    /\ network' = Append(network, Request("files.list", query, page_token))
    /\ mresult' = MRaised(x)
    /\ UNCHANGED <<client, hidden_flags, op, args, query, served, entries,
                   page_token, page_num, response, feed, cursor>>

\* The same steps of list_files, called directly.
ListFilesStart(parent, qc, qi, buildOk) ==
    ListFilesEnter(parent, qc, qi, buildOk) /\ UNCHANGED <<proxyVars, extVars>>
ListFilesPage(items, tok) ==
    ListFilesIteration(items, tok) /\ UNCHANGED <<proxyVars, extVars>>
ListFilesPageFails(x) ==
    ListFilesRaises(x) /\ UNCHANGED <<proxyVars, extVars>>

-----------------------------------------------------------------------------
(* _GdriveManager.list_changes *)

\* An item of response[u'items']: id is the value of int(item[u'id']).
ChangeItems == [id : 0..MaxId, fileId : {"x"}, deleted : BOOLEAN]

RECURSIVE SeqsUpTo(_, _)
SeqsUpTo(S, k) ==
    IF k = 0 THEN { <<>> }
    ELSE LET shorter == SeqsUpTo(S, k - 1)
         IN shorter \cup { Append(q, e) : q \in shorter, e \in S }

ChangePages == SeqsUpTo(ChangeItems, MaxItems)

\* last_change_id = None
NoLast == -1

NoEntry == [normalized_by |-> "", raw |-> None]

\* (entry_id, was_deleted, normalized_entry), stored under change_id.
ChangeRecord(item) ==
    [key |-> item.id,
     entry_id |-> item.fileId,
     was_deleted |-> item.deleted,
     normalized_entry |-> IF item.deleted THEN NoEntry
                          ELSE NormalEntry("list_changes", item.fileId)]

\* changes[change_id] = value on an OrderedDict: a key already there keeps
\* its place and gets the new value, a new key goes to the end.
Put(changes, rec) ==
    IF \E i \in 1..Len(changes) : changes[i].key = rec.key
    THEN [i \in 1..Len(changes) |->
             IF changes[i].key = rec.key THEN rec ELSE changes[i]]
    ELSE Append(changes, rec)

\* "if last_change_id and change_id <= last_change_id": None and 0 are false.
OutOfOrder(last, change_id) ==
    /\ last # NoLast
    /\ last # 0
    /\ change_id <= last

\* The for loop of lines 135-153.
RECURSIVE ChangesLoop(_, _, _)
ChangesLoop(items, changes, last) ==
    IF items = <<>> THEN [raised |-> FALSE, changes |-> changes]
    ELSE IF OutOfOrder(last, Head(items).id)
    THEN [raised |-> TRUE, changes |-> <<>>]
    ELSE ChangesLoop(Tail(items), Put(changes, ChangeRecord(Head(items))),
                     Head(items).id)

Keys(changes) == [i \in 1..Len(changes) |-> changes[i].key]

\* The pages a traversal has got so far: a call without a page token starts
\* a new traversal.
FeedSoFar == IF cursor = NoToken THEN <<>> ELSE feed

\* list_changes(start_change_id, page_token): one page of the feed.  The
\* caller passes the page token of the page before (cursor).
ListChanges(items, tok, largest, buildOk, respOk) ==
    /\ Idle
    /\ buildOk \in BuildOutcomes
    /\ Len(FeedSoFar) < MaxFeedPages
    /\ Len(FeedSoFar) + 1 = MaxFeedPages => tok = NoToken
    /\ op' = "list_changes"
    /\ args' = NoArgs
    /\ client' = ClientAfter(buildOk)
    /\ IF GetClientRaises(buildOk)
       THEN /\ network' = DiscoveryFetch
            /\ response' = NoResponse
            /\ mresult' = MRaised("HttpError")
            /\ feed' = FeedSoFar
            /\ cursor' = NoToken
       ELSE IF ~respOk
       THEN /\ network' = DiscoveryFetch \o
                          << Request("changes.list", NoQuery, cursor) >>
            /\ response' = NoResponse
            /\ mresult' = MRaised("HttpError")
            /\ feed' = FeedSoFar
            /\ cursor' = NoToken
       ELSE /\ network' = DiscoveryFetch \o
                          << Request("changes.list", NoQuery, cursor) >>
            /\ response' = [served |-> TRUE, items |-> items, next |-> tok,
                            largest |-> largest]
            /\ LET r == ChangesLoop(items, <<>>, NoLast)
               IN IF r.raised
                  THEN /\ mresult' = MRaised("Exception")
                       /\ feed' = FeedSoFar
                       /\ cursor' = NoToken
                  ELSE /\ mresult' = MReturned(r.changes, tok, largest)
                       /\ feed' = Append(FeedSoFar, Keys(r.changes))
                       /\ cursor' = tok
    /\ NoListFilesLocals
    /\ UNCHANGED hidden_flags
    /\ UNCHANGED <<proxyVars, extVars>>

-----------------------------------------------------------------------------
(* _GdriveManager.download_to_local *)

\* The mime type of the entries, and the types a caller asks for.
NativeType == "text/plain"
MimeTypes  == {"text/plain", "application/pdf", "text/html"}

\* normalized_entry.download_links, by its keys.
LinkSets == { {"application/pdf"} }

\* normalized_entry.modified_date: a datetime, with microseconds.
ModifiedDates == [sec : 1..(MaxTime - 1), usec : {0, 500000}]

\* The normalized entries a caller passes.
Entry(links, d) ==
    [mime_type |-> NativeType, download_links |-> links, modified_date |-> d]
DownloadEntries == { Entry(l, d) : l \in LinkSets, d \in ModifiedDates }

\* time.mktime(normalized_entry.modified_date.timetuple()): a time tuple
\* has no microseconds.
MTimeEpoch(d) == d.sec

\* The file at output_file_path; its content is the list of the chunks
\* written to it, its mtime is in whole seconds.
NoFile           == [exists |-> FALSE, mtime |-> 0, content |-> <<>>]
StoredFile(t, c) == [exists |-> TRUE, mtime |-> t, content |-> c]

\* The first k chunks of the remote content.
Chunks(k) == [i \in 1..k |-> i]

\* What one invocation meets: the temporary directory cannot be made; the
\* credentials give no authorized http object; the transfer is done after k
\* requests; or the request after c chunks raises the error of outcome o.
NoAuth       == [kind |-> "authfault", chunks |-> 0, err |-> AuthFault]
NoTempDir    == [kind |-> "oserror", chunks |-> 0, err |-> Other("OSError")]
Done(k)      == [kind |-> "done", chunks |-> k, err |-> Ok(None)]
Broken(c, o) == [kind |-> "broken", chunks |-> c, err |-> o]

DReturned(size, changed) ==
    [kind |-> "return", val |-> "", size |-> size, changed |-> changed]
DRaised(x) == [kind |-> "raise", val |-> x, size |-> 0, changed |-> FALSE]
DNoResult  == [kind |-> "none", val |-> "", size |-> 0, changed |-> FALSE]

\* The record of one invocation: its arguments, whether it took the cached
\* file, whether it opened the file for writing, the chunk requests it made,
\* and what it gave its caller.
Download(ac, mt, e, hit, opened, reqs, res) ==
    [allow_cache |-> ac, mime_type |-> mt, entry |-> e, use_cache |-> hit,
     opened |-> opened, requests |-> reqs, result |-> res]
NoDownload ==
    Download(FALSE, NativeType, Entry({}, [sec |-> 1, usec |-> 0]),
             FALSE, FALSE, 0, DNoResult)

\* A variant of IsExportFormatError with the second test inverted.
IsExportFormatErrorInverted(mime_type, e) ==
    /\ mime_type # e.mime_type
    /\ mime_type \in e.download_links

\* if mime_type != normalized_entry.mime_type and
\*    mime_type not in normalized_entry.download_links
IsExportFormatError(mime_type, e) ==
    /\ mime_type # e.mime_type
    /\ mime_type \notin e.download_links

\* A variant of UseCache that takes any existing file.
UseCacheAnyFile(allow_cache, e, f) == allow_cache /\ f.exists

\* use_cache: allow_cache and isfile(output_file_path) and
\* gd_mtime_epoch == stat_info.st_mtime
UseCache(allow_cache, e, f) ==
    /\ allow_cache
    /\ f.exists
    /\ MTimeEpoch(e.modified_date) = f.mtime

\* A variant of Opened that appends to the file.
OpenedForAppend(f, now) == StoredFile(now, f.content)

\* open(output_file_path, 'wb'): the file exists and is empty.
Opened(f, now) == StoredFile(now, <<>>)

\* A variant of Stamped that leaves the time of the last write.
StampedNow(f, e, now) == StoredFile(now, f.content)

\* utime(output_file_path, (time.time(), gd_mtime_epoch))
Stamped(f, e, now) == StoredFile(MTimeEpoch(e.modified_date), f.content)

\* downloader.next_chunk() k times on the open file f: each call appends the
\* next chunk of the remote content.
Transferred(f, k, now) == StoredFile(now, f.content \o Chunks(k))

\* One invocation of download_to_local at time now that meets out: the file
\* it leaves, and the record of the invocation.
DownloadToLocal(allow_cache, mime_type, e, now, out) ==
    /\ clock' = now
    /\ IF IsExportFormatError(mime_type, e)
       THEN /\ file' = file
            /\ dl' = Download(allow_cache, mime_type, e, FALSE, FALSE, 0,
                              DRaised("ExportFormatError"))
       ELSE IF out.kind = "oserror"
       THEN \* makedirs(temp_path) fails: re-raised
            /\ file' = file
            /\ dl' = Download(allow_cache, mime_type, e, FALSE, FALSE, 0,
                              DRaised(out.err.val))
       ELSE IF UseCache(allow_cache, e, file)
       THEN \* return (stat_info.st_size, False)
            /\ file' = file
            /\ dl' = Download(allow_cache, mime_type, e, TRUE, FALSE, 0,
                              DReturned(Len(file.content), FALSE))
       ELSE IF out.kind = "authfault"
       THEN \* authed_http = self.__auth.get_authed_http()
            /\ file' = file
            /\ dl' = Download(allow_cache, mime_type, e, FALSE, FALSE, 0,
                              DRaised(out.err.val))
       ELSE IF mime_type \notin e.download_links
       THEN \* url = normalized_entry.download_links[mime_type]
            /\ file' = file
            /\ dl' = Download(allow_cache, mime_type, e, FALSE, FALSE, 0,
                              DRaised("KeyError"))
       ELSE IF out.kind = "broken"
       THEN \* next_chunk raises inside the with block: the file is closed
            \* as the chunks written so far left it
            /\ file' = Transferred(Opened(file, now), out.chunks, now)
            /\ dl' = Download(allow_cache, mime_type, e, FALSE, TRUE,
                              out.chunks + 1, DRaised(out.err.val))
       ELSE \* done is True: utime, return (total_size, True)
            /\ file' = Stamped(Transferred(Opened(file, now), out.chunks, now),
                               e, now)
            /\ dl' = Download(allow_cache, mime_type, e, FALSE, TRUE,
                              out.chunks, DReturned(out.chunks, TRUE))

\* Errors of a chunk request, as outcomes of the invocation.
ChunkErrors ==
    { Transient("SSLError"), Http(Body(TRUE, 500, FALSE, "")) }

DownloadOutcomes ==
    {NoTempDir, NoAuth} \cup { Done(k) : k \in 1..MaxChunks }
       \cup { Broken(c, o) : c \in 0..(MaxChunks - 1), o \in ChunkErrors }

\* A direct call of download_to_local.
DownloadCall(allow_cache, mime_type, e, now, out) ==
    /\ DownloadToLocal(allow_cache, mime_type, e, now, out)
    /\ UNCHANGED <<proxyVars, mgrVars, ctxVars, ecall, nestVars>>

\* What is at output_file_path before the first call: nothing, or a file
\* some earlier download left.
InitialFiles ==
    {NoFile} \cup { StoredFile(t, Chunks(k)) : t \in 1..(MaxTime - 1),
                                                k \in 0..MaxChunks }

DownloadInit ==
    /\ file \in InitialFiles
    /\ clock = 0
    /\ dl = NoDownload

\* What a direct call meets: one kind of failing chunk request.
DirectOutcomes == { out \in DownloadOutcomes : out.err.kind # "http" }

DownloadNext ==
    \E ac \in BOOLEAN, mt \in MimeTypes, e \in DownloadEntries,
       now \in clock..MaxTime, out \in DirectOutcomes :
         DownloadCall(ac, mt, e, now, out)

-----------------------------------------------------------------------------
(* drive_proxy and GdriveAuth.get_client, step by step, in the execution   *)
(* contexts (threads) that call them                                       *)

\* _instance = None; self.__client = None.  Proxies and clients are numbered
\* from 1 in the order of their construction.
NoInstance == 0
NoClient   == 0

\* The locals of one context: its position; my, the proxy getattr gave it;
\* new, the proxy it constructed; client, the local of get_client; had, the
\* value of __client that get_client tested; fetched, the discovery fetches
\* of its current call; got, the client get_client returned to it; raised,
\* whether its call ended with the HttpError of build().
Context(pos, my, new, cl, had, fetched, got, raised) ==
    [pc |-> pos, my |-> my, new |-> new, client |-> cl, had |-> had,
     fetched |-> fetched, got |-> got, raised |-> raised]
IdleContext == Context("idle", 0, 0, NoClient, NoClient, 0, NoClient, FALSE)

Running == { t \in DOMAIN ctx : ctx[t].pc \notin {"idle", "done"} }

\* No proxy exists and nc contexts are about to call.
ContextsInit(nc) ==
    /\ instance = NoInstance
    /\ proxies = <<>>
    /\ builds = 0
    /\ ctx = [t \in 1..nc |-> IdleContext]

\* drive_proxy(action, ...) is called in context t.
Call(t) ==
    /\ ctx[t].pc \in {"idle", "done"}
    /\ builds + Cardinality(Running) < MaxBuilds
    /\ ctx' = [ctx EXCEPT ![t] = [IdleContext EXCEPT !.pc = "dp_test"]]
    /\ UNCHANGED <<instance, proxies, builds>>
    /\ UNCHANGED <<proxyVars, mgrVars, dlVars, ecall, nestVars>>

\* if _instance is None
TestInstance(t) ==
    /\ ctx[t].pc = "dp_test"
    /\ ctx' = [ctx EXCEPT ![t].pc = IF instance = NoInstance
                                     THEN "dp_new" ELSE "dp_get"]
    /\ UNCHANGED <<instance, proxies, builds>>
    /\ UNCHANGED <<proxyVars, mgrVars, dlVars, ecall, nestVars>>

\* _GoogleProxy(): a new proxy with its own _GdriveManager and GdriveAuth,
\* whose __client is None.
Construct(t) ==
    /\ ctx[t].pc = "dp_new"
    /\ proxies' = Append(proxies, NoClient)
    /\ ctx' = [ctx EXCEPT ![t].pc = "dp_store", ![t].new = Len(proxies) + 1]
    /\ UNCHANGED <<instance, builds>>
    /\ UNCHANGED <<proxyVars, mgrVars, dlVars, ecall, nestVars>>

\* _instance = (the new proxy)
StoreInstance(t) ==
    /\ ctx[t].pc = "dp_store"
    /\ instance' = ctx[t].new
    /\ ctx' = [ctx EXCEPT ![t].pc = "dp_get"]
    /\ UNCHANGED <<proxies, builds>>
    /\ UNCHANGED <<proxyVars, mgrVars, dlVars, ecall, nestVars>>

\* method = getattr(_instance, action); method(auto_refresh, **kwargs), whose
\* first statement is self.__auth.get_client()
GetMethod(t) ==
    /\ ctx[t].pc = "dp_get"
    /\ ctx' = [ctx EXCEPT ![t].pc = "gc_test", ![t].my = instance]
    /\ UNCHANGED <<instance, proxies, builds>>
    /\ UNCHANGED <<proxyVars, mgrVars, dlVars, ecall, nestVars>>

\* A variant of TestClient that builds whatever __client is.
TestClientAlwaysBuild(t) ==
    /\ ctx[t].pc = "gc_test"
    /\ ctx' = [ctx EXCEPT ![t].had = proxies[ctx[t].my],
                          ![t].pc = "gc_build"]
    /\ UNCHANGED <<instance, proxies, builds>>
    /\ UNCHANGED <<proxyVars, mgrVars, dlVars, ecall, nestVars>>

\* if self.__client is None
TestClient(t) ==
    /\ ctx[t].pc = "gc_test"
    /\ ctx' = [ctx EXCEPT ![t].had = proxies[ctx[t].my],
                          ![t].pc = IF proxies[ctx[t].my] = NoClient
                                    THEN "gc_build" ELSE "gc_return"]
    /\ UNCHANGED <<instance, proxies, builds>>
    /\ UNCHANGED <<proxyVars, mgrVars, dlVars, ecall, nestVars>>

\* client = build(...): fetches the discovery description; an HttpError is
\* re-raised and ends the call.
Build(t, ok) ==
    /\ ctx[t].pc = "gc_build"
    /\ builds' = builds + 1
    /\ ctx' = [ctx EXCEPT ![t].fetched = ctx[t].fetched + 1,
                          ![t].client = IF ok THEN builds + 1 ELSE NoClient,
                          ![t].raised = ~ok,
                          ![t].pc = IF ok THEN "gc_store" ELSE "done"]
    /\ UNCHANGED <<instance, proxies>>
    /\ UNCHANGED <<proxyVars, mgrVars, dlVars, ecall, nestVars>>

\* self.__client = client
StoreClient(t) ==
    /\ ctx[t].pc = "gc_store"
    /\ proxies' = [proxies EXCEPT ![ctx[t].my] = ctx[t].client]
    /\ ctx' = [ctx EXCEPT ![t].pc = "gc_return"]
    /\ UNCHANGED <<instance, builds>>
    /\ UNCHANGED <<proxyVars, mgrVars, dlVars, ecall, nestVars>>

\* return self.__client
ReturnClient(t) ==
    /\ ctx[t].pc = "gc_return"
    /\ ctx' = [ctx EXCEPT ![t].got = proxies[ctx[t].my], ![t].pc = "done"]
    /\ UNCHANGED <<instance, proxies, builds>>
    /\ UNCHANGED <<proxyVars, mgrVars, dlVars, ecall, nestVars>>

\* The same call, begun when no other context is inside a call.
CallAlone(t) == Running = {} /\ Call(t)

\* The contexts call one at a time: no two calls overlap.
SerialNext ==
    \/ \E t \in DOMAIN ctx : CallAlone(t)
    \/ \E t \in DOMAIN ctx : TestInstance(t)
    \/ \E t \in DOMAIN ctx : Construct(t)
    \/ \E t \in DOMAIN ctx : StoreInstance(t)
    \/ \E t \in DOMAIN ctx : GetMethod(t)
    \/ \E t \in DOMAIN ctx : TestClient(t)
    \/ \E t \in DOMAIN ctx, ok \in BOOLEAN : Build(t, ok)
    \/ \E t \in DOMAIN ctx : StoreClient(t)
    \/ \E t \in DOMAIN ctx : ReturnClient(t)

ContextsNext ==
    \/ \E t \in DOMAIN ctx : Call(t)
    \/ \E t \in DOMAIN ctx : TestInstance(t)
    \/ \E t \in DOMAIN ctx : Construct(t)
    \/ \E t \in DOMAIN ctx : StoreInstance(t)
    \/ \E t \in DOMAIN ctx : GetMethod(t)
    \/ \E t \in DOMAIN ctx : TestClient(t)
    \/ \E t \in DOMAIN ctx, ok \in BOOLEAN : Build(t, ok)
    \/ \E t \in DOMAIN ctx : StoreClient(t)
    \/ \E t \in DOMAIN ctx : ReturnClient(t)

-----------------------------------------------------------------------------
(* update_entry, truncate, rename, get_entry and remove_entry *)

\* A keyword argument the caller did not pass.
Unsupplied == "<not passed>"

\* The keyword parameters of update_entry and their defaults (line 459-462).
ParamNames ==
    {"filename", "data_filepath", "mime_type", "parents", "modified_datetime",
     "accessed_datetime", "is_hidden", "description"}
Default(p) == IF p = "is_hidden" THEN "False" ELSE None

\* The value update_entry sees for parameter p.
Arg(kw, p) == IF kw[p] = Unsupplied THEN Default(p) ELSE kw[p]

NoKwargs == [p \in ParamNames |-> Unsupplied]

\* The keyword arguments callers pass to update_entry (data_filepath is
\* passed by truncate).
Kwargs ==
    [filename : {Unsupplied, "f"}, data_filepath : {Unsupplied},
     mime_type : {Unsupplied, "text/html"}, parents : {Unsupplied, "p"},
     modified_datetime : {Unsupplied, "2013-01-01"},
     accessed_datetime : {Unsupplied, "2013-01-02"},
     is_hidden : {Unsupplied, None, "True"},
     description : {Unsupplied, "d"}]

\* get_flat_normal_fs_time_from_dt(): the current time.
NowStamp == "now"

EmptyBody == [f \in {} |-> ""]

\* The keys of body (lines 471-493).
BodyFields(kw) ==
    {"mimeType", "modifiedDate"}
      \cup (IF Arg(kw, "filename") # None THEN {"title"} ELSE {})
      \cup (IF Arg(kw, "parents") # None THEN {"parents"} ELSE {})
      \cup (IF Arg(kw, "is_hidden") # None THEN {"labels"} ELSE {})
      \cup (IF Arg(kw, "description") # None THEN {"description"} ELSE {})
      \cup (IF Arg(kw, "accessed_datetime") # None
            THEN {"lastViewedByMeDate"} ELSE {})

\* body, for an entry of mime type entry_mime.
UpdateBody(entry_mime, kw) ==
    [f \in BodyFields(kw) |->
       CASE f = "mimeType" ->
              IF Truthy(Arg(kw, "mime_type"))
              THEN Arg(kw, "mime_type") ELSE entry_mime
         [] f = "title" -> Arg(kw, "filename")
         [] f = "parents" -> Arg(kw, "parents")
         [] f = "labels" -> Arg(kw, "is_hidden")
         [] f = "description" -> Arg(kw, "description")
         [] f = "modifiedDate" ->
              IF Arg(kw, "modified_datetime") # None
              THEN Arg(kw, "modified_datetime") ELSE NowStamp
         [] f = "lastViewedByMeDate" -> Arg(kw, "accessed_datetime")]

\* A request of an entry operation: the method of the service, and for
\* files().update the arguments next to the body.
Sent(req, atime, media) == [req |-> req, updateViewedDate |-> atime,
                            media_body |-> media]
EntryDiscovery == IF client = None THEN << Sent("discovery", 0, FALSE) >>
                  ELSE << >>

\* args of files().update (lines 497-505).
UpdateArgs(kw) ==
    Sent("files.update",
         IF Arg(kw, "accessed_datetime") # None THEN 1 ELSE 0,
         Truthy(Arg(kw, "data_filepath")))

EReturned(v) == [kind |-> "return", val |-> v]
ERaised(x)   == [kind |-> "raise", val |-> x]
ENoResult    == [kind |-> "none", val |-> ""]

\* The record of an entry operation: its name, the keyword arguments
\* update_entry was called with, the body and the requests it sent, the
\* answers of the service to the operation's own request, and its result.
ECall(name, kw, body, sent, answers, res) ==
    [op |-> name, kw |-> kw, body |-> body, sent |-> sent,
     answers |-> answers, result |-> res]
NoECall == ECall("none", NoKwargs, EmptyBody, <<>>, <<>>, ENoResult)

ECallInit == ecall = NoECall

\* The answers of the service to files().get, files().update and
\* files().delete: the result, or the exception execute() raises.
NotFoundBody == Body(TRUE, 404, TRUE, "notFound")
EntryAnswers ==
    { Ok("raw"), Http(NotFoundBody), Http(Body(TRUE, 500, FALSE, "")),
      Http(Body(TRUE, 403, TRUE, "rateLimitExceeded")), Http(MalformedBody),
      Transient("SSLError"), AuthFault }

\* The answers to files().update.
UpdateAnswers ==
    { Ok("raw"), Http(Body(TRUE, 500, FALSE, "")), Transient("SSLError") }

\* What the operation gives its caller when execute() raised: the same
\* exception.
Reraised(o) == ERaised(o.val)

\* update_entry as name (update_entry itself, or the update_entry that
\* truncate and rename call) with keyword arguments kw; returned is what the
\* outer method makes of the normalized entry.
UpdateEntryAs(name, kw, buildOk, ans, returned) ==
    /\ client' = ClientAfter(buildOk)
    /\ IF GetClientRaises(buildOk)
       THEN ecall' = ECall(name, kw, EmptyBody, EntryDiscovery, <<>>,
                           ERaised("HttpError"))
       ELSE ecall' = ECall(name, kw, UpdateBody(NativeType, kw),
                           EntryDiscovery \o << UpdateArgs(kw) >>, << ans >>,
                           IF ans.kind = "ok" THEN EReturned(returned)
                           ELSE Reraised(ans))
    /\ UNCHANGED <<hidden_flags, op, args, network, page_token, page_num,
                   entries, query, served, mresult, response, feed, cursor>>
    /\ UNCHANGED <<proxyVars, dlVars, ctxVars, nestVars>>

UpdateEntry(kw, buildOk, ans) ==
    UpdateEntryAs("update_entry", kw, buildOk, ans, "update_entry")

\* truncate: self.update_entry(normalized_entry, data_filepath='/dev/null');
\* the method has no return statement.
Truncate(buildOk, ans) ==
    UpdateEntryAs("truncate", [NoKwargs EXCEPT !["data_filepath"] = "/dev/null"],
                  buildOk, ans, None)

\* split_path_nolookups(new_filename): the file name without its directory,
\* and whether it is a hidden one (its first character is a dot).
RenameTargets == { [filename |-> "a", is_hidden |-> "False"],
                   [filename |-> ".a", is_hidden |-> "True"] }

\* rename: self.update_entry(normalized_entry, filename=filename_stripped,
\* is_hidden=is_hidden)
Rename(target, buildOk, ans) ==
    UpdateEntryAs("rename",
                  [NoKwargs EXCEPT !["filename"] = target.filename,
                                   !["is_hidden"] = target.is_hidden],
                  buildOk, ans, "update_entry")

\* get_entry: files().get, whose exception is re-raised as it is.
GetEntry(buildOk, ans) ==
    /\ client' = ClientAfter(buildOk)
    /\ IF GetClientRaises(buildOk)
       THEN ecall' = ECall("get_entry", NoKwargs, EmptyBody, EntryDiscovery,
                           <<>>, ERaised("HttpError"))
       ELSE ecall' = ECall("get_entry", NoKwargs, EmptyBody,
                           EntryDiscovery \o << Sent("files.get", 0, FALSE) >>,
                           << ans >>,
                           IF ans.kind = "ok" THEN EReturned("direct_read")
                           ELSE Reraised(ans))
    /\ UNCHANGED <<hidden_flags, op, args, network, page_token, page_num,
                   entries, query, served, mresult, response, feed, cursor>>
    /\ UNCHANGED <<proxyVars, dlVars, ctxVars, nestVars>>

\* str(e).find('File not found') != -1 for the HttpError of answer o: the
\* service's message for a file that does not exist, read from a JSON body.
SaysFileNotFound(o) == o.body.json /\ o.body.code = 404

\* A variant of RemoveOutcome that re-raises every exception.
RemoveOutcomeReraise(o) == o

\* The outcome of remove_entry when files().delete answers o: None, the
\* NameError for an HttpError that says 'File not found', or the exception
\* as it is.
RemoveOutcome(o) ==
    IF o.kind = "http" /\ SaysFileNotFound(o) THEN Other("NameError")
    ELSE IF o.kind = "ok" THEN Ok(None)
    ELSE o

\* remove_entry, called directly.
RemoveEntry(buildOk, ans) ==
    /\ client' = ClientAfter(buildOk)
    /\ IF GetClientRaises(buildOk)
       THEN ecall' = ECall("remove_entry", NoKwargs, EmptyBody,
                           EntryDiscovery, <<>>, ERaised("HttpError"))
       ELSE ecall' = ECall("remove_entry", NoKwargs, EmptyBody,
                           EntryDiscovery \o << Sent("files.delete", 0, FALSE) >>,
                           << ans >>,
                           IF ans.kind = "ok" THEN EReturned(None)
                           ELSE Reraised(RemoveOutcome(ans)))
    /\ UNCHANGED <<hidden_flags, op, args, network, page_token, page_num,
                   entries, query, served, mresult, response, feed, cursor>>
    /\ UNCHANGED <<proxyVars, dlVars, ctxVars, nestVars>>

EntriesNext ==
    \/ \E kw \in Kwargs, buildOk \in BuildOutcomes, ans \in UpdateAnswers :
          UpdateEntry(kw, buildOk, ans)
    \/ \E buildOk \in BuildOutcomes, ans \in UpdateAnswers :
          Truncate(buildOk, ans)
    \/ \E target \in RenameTargets, buildOk \in BuildOutcomes,
          ans \in UpdateAnswers :
          Rename(target, buildOk, ans)
    \/ \E buildOk \in BuildOutcomes, ans \in EntryAnswers :
          GetEntry(buildOk, ans)
    \/ \E buildOk \in BuildOutcomes, ans \in EntryAnswers :
          RemoveEntry(buildOk, ans)

\* remove_entry behind the proxy: drive_proxy('remove_entry', ...).
RemoveCall(ar) ==
    /\ StartCall(ar)
    /\ ecall' = NoECall
    /\ UNCHANGED <<mgrVars, dlVars, ctxVars, nestVars>>

\* No answer: get_client raised before the request.
NoAnswer == Outcome("none", "", NoBody)

\* The HttpError of build().
BuildError == Http(Body(TRUE, 500, FALSE, ""))

\* One invocation of remove_entry by proxied_method, and what proxied_method
\* does with its outcome.
RemoveAttempt(buildOk, ans, j) ==
    /\ pc = "loop"
    /\ client' = ClientAfter(buildOk)
    /\ IF GetClientRaises(buildOk)
       THEN /\ Handle(BuildError, j)
            /\ ecall' = ECall("remove_entry", NoKwargs, EmptyBody,
                              EntryDiscovery, Append(ecall.answers, NoAnswer),
                              Reraised(BuildError))
       ELSE /\ Handle(RemoveOutcome(ans), j)
            /\ ecall' = ECall("remove_entry", NoKwargs, EmptyBody,
                              EntryDiscovery \o
                                << Sent("files.delete", 0, FALSE) >>,
                              Append(ecall.answers, ans),
                              IF ans.kind = "ok" THEN EReturned(None)
                              ELSE Reraised(RemoveOutcome(ans)))
    /\ UNCHANGED <<hidden_flags, op, args, network, page_token, page_num,
                   entries, query, served, mresult, response, feed, cursor>>
    /\ UNCHANGED <<dlVars, ctxVars, nestVars>>

ProxiedRemoveNext ==
    \/ \E ar \in BOOLEAN : RemoveCall(ar)
    \/ \E buildOk \in BuildOutcomes, ans \in EntryAnswers, j \in Jitters :
          RemoveAttempt(buildOk, ans, j)

-----------------------------------------------------------------------------
(* download_to_local behind the proxy *)

\* drive_proxy('download_to_local', ...): a new call of proxied_method with
\* the arguments of the download.
ProxiedDownloadCall(ar, allow_cache, mime_type, e) ==
    /\ StartCall(ar)
    /\ dl' = Download(allow_cache, mime_type, e, FALSE, FALSE, 0, DNoResult)
    /\ UNCHANGED <<file, clock>>
    /\ UNCHANGED <<mgrVars, ctxVars, ecall, nestVars>>

\* The value download_to_local returns: (size, changed).
SizeChanged(size, changed) == [size |-> size, changed |-> changed]

\* The outcome of the invocation recorded in d that met out, as
\* proxied_method sees it.
AttemptOutcome(d, out) ==
    IF d.result.kind = "return"
    THEN Ok(SizeChanged(d.result.size, d.result.changed))
    ELSE IF d.result.val \in {"ExportFormatError", "KeyError"}
    THEN Other(d.result.val)
    ELSE out.err

\* The earliest time of the next invocation: the clock, advanced by the
\* sleep that followed the last invocation if there was one (times from
\* MaxTime on are one).
EarliestNow ==
    IF sleeps # <<>> /\ sleeps[Len(sleeps)].after = Len(attempts)
    THEN IF clock + sleeps[Len(sleeps)].secs < MaxTime
         THEN clock + sleeps[Len(sleeps)].secs ELSE MaxTime
    ELSE clock

\* One invocation of download_to_local by proxied_method, with the arguments
\* of the call, and what proxied_method does with its outcome.
DownloadAttempt(now, out, j) ==
    /\ pc = "loop"
    /\ now >= EarliestNow
    /\ DownloadToLocal(dl.allow_cache, dl.mime_type, dl.entry, now, out)
    /\ Handle(AttemptOutcome(dl', out), j)
    /\ UNCHANGED <<mgrVars, ctxVars, ecall, nestVars>>

\* The entries and types of the proxied downloads.
ProxiedEntries == { Entry({"text/plain", "application/pdf"}, d) :
                       d \in ModifiedDates }

ProxiedDownloadNext ==
    \/ \E ar \in BOOLEAN, ac \in BOOLEAN, mt \in MimeTypes,
          e \in ProxiedEntries :
          ProxiedDownloadCall(ar, ac, mt, e)
    \/ \E now \in 0..MaxTime, out \in DownloadOutcomes, j \in Jitters :
          DownloadAttempt(now, out, j)

-----------------------------------------------------------------------------
(* list_files behind the proxy *)

\* One finished invocation of list_files: the pages it was served, and
\* whether it returned.
Try(pages, ok) == [pages |-> pages, ok |-> ok]

\* drive_proxy('list_files', ...): a new call of proxied_method with the
\* arguments of the listing.
ListCall(ar, parent, qc, qi) ==
    /\ StartCall(ar)
    /\ op' = "none"
    /\ args' = [qc |-> qc, qi |-> qi, parent |-> parent]
    /\ network' = <<>>
    /\ mresult' = MNoResult
    /\ NoListFilesLocals
    /\ tries' = <<>>
    /\ UNCHANGED <<client, hidden_flags, response, feed, cursor>>
    /\ UNCHANGED <<dlVars, ctxVars, ecall, nest>>

\* proxied_method invokes list_files, which runs up to its loop; when
\* get_client raises, the invocation is over and proxied_method handles the
\* error.
ListAttemptStart(buildOk, j) ==
    /\ pc = "loop"
    /\ ListFilesEnter(args.parent, args.qc, args.qi, buildOk)
    /\ IF GetClientRaises(buildOk)
       THEN /\ Handle(BuildError, j)
            /\ tries' = Append(tries, Try(0, FALSE))
       ELSE UNCHANGED <<proxyVars, tries>>
    /\ UNCHANGED <<dlVars, ctxVars, ecall, nest>>

\* One iteration of the loop of the invocation in progress; with the last
\* page list_files returns its entries and proxied_method returns them.
ListAttemptPage(items, tok) ==
    /\ pc = "loop"
    /\ ListFilesIteration(items, tok)
    /\ IF tok = NoToken
       THEN /\ Handle(Ok(entries'), 0)
            /\ tries' = Append(tries, Try(Len(served'), TRUE))
       ELSE UNCHANGED <<proxyVars, tries>>
    /\ UNCHANGED <<dlVars, ctxVars, ecall, nest>>

\* The request for a page raises the error of outcome o: list_files raises
\* it and proxied_method handles it.
ListAttemptFails(o, j) ==
    /\ pc = "loop"
    /\ ListFilesRaises(o.val)
    /\ Handle(o, j)
    /\ tries' = Append(tries, Try(Len(served), FALSE))
    /\ UNCHANGED <<dlVars, ctxVars, ecall, nest>>

\* The errors of a request for a page: a transient one, a rate limit, and
\* one that proxied_method does not retry.
PageErrors ==
    { Transient("SSLError"), Http(Body(TRUE, 403, TRUE, "rateLimitExceeded")),
      Http(Body(TRUE, 500, FALSE, "")) }

\* The items of a page of a proxied listing.
ProxiedItemLists == { <<"a">>, <<"b", "a">> }

\* Listings of everything, with the sleeps at their shortest.
ProxiedListNext ==
    \/ ListCall(TRUE, None, None, None)
    \/ \E buildOk \in BuildOutcomes : ListAttemptStart(buildOk, 0)
    \/ \E items \in ProxiedItemLists, tok \in {"t1", NoToken} :
          ListAttemptPage(items, tok)
    \/ \E o \in PageErrors : ListAttemptFails(o, 0)

-----------------------------------------------------------------------------
(* get_entries behind the proxy, with its own proxied calls of get_entry *)

\* The value None where get_entries expects an entry.
NoneEntry == NormalEntry(None, None)

\* The proxied get_entry call inside get_entries: the loop variable n and the
\* local error of its proxied_method.
Inner(k, err) == [n |-> k, error |-> err]
NewInner == Inner(0, Unbound)

\* What one invocation by a proxied_method leaves: the loop goes on with the
\* locals in next, or the call is over with outcome out.
GoesOn(next)  == [done |-> FALSE, next |-> next, out |-> Ok(NoneEntry)]
IsOver(o)     == [done |-> TRUE, next |-> NewInner, out |-> o]

\* The end of an iteration of the inner loop that neither returned nor
\* raised: the next iteration, or the end of the function, which returns
\* None.
InnerNextIteration(in, err) ==
    IF in.n + 1 < Attempts THEN GoesOn(Inner(in.n + 1, err))
    ELSE IsOver(Ok(NoneEntry))

\* One iteration of the loop of the inner proxied_method (auto_refresh is
\* True) whose invocation of get_entry had outcome o.
InnerIteration(in, o) ==
    CASE o.kind = "ok" -> IsOver(o)
      [] o.kind = "transient" -> InnerNextIteration(in, in.error)
      [] o.kind = "http" ->
           LET err == IF o.body.json THEN o.body ELSE in.error
           IN IF err = Unbound THEN IsOver(Other("UnboundLocalError"))
              ELSE IF err.code = 403 /\ ~err.has_errors
              THEN IsOver(Other("TypeError"))
              ELSE IF IsRateLimit(err) THEN InnerNextIteration(in, err)
              ELSE IsOver(o)
      [] o.kind = "authfault" ->
           IF MustRaiseAuthFault(TRUE, in.n) THEN IsOver(o)
           ELSE InnerNextIteration(in, in.error)
      [] o.kind = "other" -> IsOver(o)

\* get_entries: entry_ids, the position idx of its loop in them (0: not
\* running), the values stored in retrieved so far, the proxied get_entry in
\* progress, and the invocations of get_entry per id since the call began.
Nest(ids, idx, retrieved, in, invocations) ==
    [ids |-> ids, idx |-> idx, retrieved |-> retrieved, inner |-> in,
     invocations |-> invocations]
NoNest == Nest(<<>>, 0, <<>>, NewInner, <<>>)

NestInit == tries = <<>> /\ nest = NoNest

\* The lists of entry ids callers pass.
RECURSIVE IdLists(_)
IdLists(k) ==
    IF k = 0 THEN {}
    ELSE IdLists(k - 1) \cup { [i \in 1..k |-> << "x", "y", "z" >>[i]] }

\* drive_proxy('get_entries', entry_ids=ids)
EntriesCall(ar, ids) ==
    /\ StartCall(ar)
    /\ nest' = Nest(ids, 0, <<>>, NewInner, [i \in 1..Len(ids) |-> 0])
    /\ UNCHANGED tries
    /\ UNCHANGED <<mgrVars, dlVars, ctxVars, ecall>>

\* The outcome of get_entry for entry_id when files().get answers ans.
GetEntryOutcome(entry_id, buildOk, ans) ==
    IF GetClientRaises(buildOk) THEN BuildError
    ELSE IF ans.kind = "ok" THEN Ok(NormalEntry("direct_read", entry_id))
    ELSE ans

\* One invocation of get_entry by the inner proxied_method, inside the
\* get_entries that the outer proxied_method invoked (a new get_entries
\* begins with its first id): the inner loop goes on; or the inner call
\* returns, its value is stored and get_entries goes to the next id or
\* returns retrieved; or the inner call raises and get_entries re-raises.
NestedGetEntry(buildOk, ans) ==
    /\ pc = "loop"
    /\ nest.ids # <<>>
    /\ client' = ClientAfter(buildOk)
    /\ LET idx  == IF nest.idx = 0 THEN 1 ELSE nest.idx
           got  == IF nest.idx = 0 THEN <<>> ELSE nest.retrieved
           r    == InnerIteration(nest.inner,
                                  GetEntryOutcome(nest.ids[idx], buildOk, ans))
           invs == [nest.invocations EXCEPT ![idx] = @ + 1]
       IN IF ~r.done
          THEN /\ nest' = Nest(nest.ids, idx, got, r.next, invs)
               /\ UNCHANGED proxyVars
          ELSE IF r.out.kind # "ok"
          THEN /\ nest' = Nest(nest.ids, 0, got, NewInner, invs)
               /\ Handle(r.out, 0)
          ELSE IF idx < Len(nest.ids)
          THEN /\ nest' = Nest(nest.ids, idx + 1, Append(got, r.out.val),
                               NewInner, invs)
               /\ UNCHANGED proxyVars
          ELSE /\ nest' = Nest(nest.ids, 0, Append(got, r.out.val),
                               NewInner, invs)
               /\ Handle(Ok(Append(got, r.out.val)), 0)
    /\ UNCHANGED <<hidden_flags, op, args, network, page_token, page_num,
                   entries, query, served, mresult, response, feed, cursor>>
    /\ UNCHANGED <<dlVars, ctxVars, ecall, tries>>

NestedNext ==
    \/ \E ar \in BOOLEAN, ids \in IdLists(MaxIds) : EntriesCall(ar, ids)
    \/ \E buildOk \in BuildOutcomes, ans \in EntryAnswers :
          NestedGetEntry(buildOk, ans)

-----------------------------------------------------------------------------
(* Specifications *)

ManagerNext ==
    \/ \E parent \in ParentIds, qc \in QueryStrings, qi \in QueryStrings :
            GetChildrenUnderParentId(parent, qc, qi)
    \/ \E parent \in ParentIds, qc \in QueryStrings, qi \in QueryStrings,
          buildOk \in BOOLEAN :
            ListFilesStart(parent, qc, qi, buildOk)
    \/ \E items \in ItemLists, tok \in PageTokens \cup {NoToken} :
            ListFilesPage(items, tok)
    \/ \E x \in {"HttpError", "SSLError"} : ListFilesPageFails(x)

ChangesNext ==
    \E items \in ChangePages, tok \in PageTokens \cup {NoToken},
       largest \in {MaxId + 1}, buildOk \in BOOLEAN,
       respOk \in BOOLEAN :
         ListChanges(items, tok, largest, buildOk, respOk)

\* Nothing has been downloaded, no proxy exists, no entry was operated on.
ExtInit ==
    /\ file = NoFile
    /\ clock = 0
    /\ dl = NoDownload
    /\ ContextsInit(0)
    /\ ECallInit
    /\ NestInit

Init == ProxyInit /\ MgrInit /\ ExtInit

\* The operations that do not read the hidden flags start from one
\* configuration.
InitNoFlags == Init /\ hidden_flags = <<>>

\* Calls through the proxy.
SpecProxy == InitNoFlags /\ [][ProxyNext]_vars

\* Direct calls of get_children_under_parent_id and list_files.
SpecManager == Init /\ [][ManagerNext]_vars

\* Traversals of the change feed with list_changes.
SpecChanges == InitNoFlags /\ [][ChangesNext]_vars

\* Nothing or a file of an earlier download is at the target path.
InitDownload ==
    /\ ProxyInit /\ MgrInit /\ hidden_flags = <<>>
    /\ DownloadInit /\ ContextsInit(0) /\ ECallInit /\ NestInit

\* Direct calls of download_to_local.
SpecDownload == InitDownload /\ [][DownloadNext]_vars

\* The state of the other parts of the model, for a specification that
\* leaves them alone.
RestInit ==
    /\ ProxyInit /\ MgrInit /\ hidden_flags = <<>>
    /\ file = NoFile /\ clock = 0 /\ dl = NoDownload
    /\ ECallInit /\ NestInit

\* No proxy exists and MaxContexts contexts are about to call drive_proxy.
InitContexts == RestInit /\ ContextsInit(MaxContexts)

\* Calls of drive_proxy one after the other: a context begins a call only
\* when no call is in progress.
SpecClient == InitContexts /\ [][SerialNext]_vars

\* Several execution contexts that call drive_proxy concurrently.
SpecContexts == InitContexts /\ [][ContextsNext]_vars

\* Direct calls of the entry operations.
SpecEntries == InitNoFlags /\ [][EntriesNext]_vars

\* Calls of remove_entry through the proxy.
SpecRemove == InitNoFlags /\ [][ProxiedRemoveNext]_vars

\* Calls of download_to_local through the proxy, into a path where there
\* is no file at first.
SpecProxiedDownload == InitNoFlags /\ [][ProxiedDownloadNext]_vars

\* Calls of list_files through the proxy.
SpecProxiedList == InitNoFlags /\ [][ProxiedListNext]_vars

\* Calls of get_entries through the proxy.
SpecNested == InitNoFlags /\ [][NestedNext]_vars

Next ==
    \/ ProxyNext \/ ManagerNext \/ ChangesNext \/ DownloadNext
    \/ SerialNext \/ ContextsNext \/ EntriesNext \/ ProxiedRemoveNext
    \/ ProxiedDownloadNext \/ ProxiedListNext \/ NestedNext

Spec == Init /\ [][Next]_vars

-----------------------------------------------------------------------------
(* Properties of the proxied call, under SpecProxy *)

LastAttempt == attempts[Len(attempts)]

\* An HTTP 403 whose JSON body names a rate-limit reason.
RateLimited(o) ==
    /\ o.kind = "http"
    /\ o.body.json
    /\ o.body.code = 403
    /\ o.body.has_errors
    /\ o.body.reason \in {"rateLimitExceeded", "userRateLimitExceeded"}

TransientOrRateLimit(o) == o.kind = "transient" \/ RateLimited(o)

OnlyRetryableBefore(k) ==
    \A i \in 1..(k - 1) : TransientOrRateLimit(attempts[i])

\* C1: a proxied call invokes the underlying operation at most 5 times; when
\* attempts 1..k-1 failed with transient or rate-limit errors, the call goes
\* on to attempt k (no such failure ends it before the fifth attempt), and
\* when attempt k succeeds the call returns the value of attempt k.
C1_RetryWithinBudget ==
    /\ Len(attempts) <= 5
    /\ (pc = "done" /\ attempts # <<>> /\ OnlyRetryableBefore(Len(attempts)))
         => /\ LastAttempt.kind = "ok"
                 => result = Returned(LastAttempt.val, Len(attempts))
            /\ TransientOrRateLimit(LastAttempt) => Len(attempts) = 5

C1_Witness ==
    /\ pc = "done"
    /\ Len(attempts) = 5
    /\ OnlyRetryableBefore(5)
    /\ \E i \in 1..4 : attempts[i].kind = "transient"
    /\ \E i \in 1..4 : RateLimited(attempts[i])
    /\ attempts[5] = Ok("v2")
    /\ result = Returned("v2", 5)

RetryableOrAuthFault(o) == TransientOrRateLimit(o) \/ o.kind = "authfault"

\* C2: a call whose 5 attempts all ended in a transient, rate-limit or
\* authorization-fault outcome raises the error of the last attempt, and a
\* call returns normally only the value of a successful invocation.
C2_ExhaustedBudgetRaises ==
    pc = "done" =>
        /\ result.kind = "return"
             => /\ attempts # <<>>
                /\ LastAttempt.kind = "ok"
                /\ result = Returned(LastAttempt.val, Len(attempts))
        /\ (/\ Len(attempts) = 5
            /\ \A i \in 1..5 : RetryableOrAuthFault(attempts[i]))
             => result = Raised(LastAttempt.val, 5)

RefreshedBefore(i) == \E r \in 1..Len(refreshes) : refreshes[r] < i

\* C3: in one call the credential refresh runs at most once, and never with
\* auto-refresh disabled; an authorization fault after a refresh of the same
\* call, or with auto-refresh disabled, is raised to the caller.
C3_RefreshAtMostOnce ==
    /\ Len(refreshes) <= 1
    /\ ~auto_refresh => refreshes = <<>>
    /\ \A i \in 1..Len(attempts) :
         (attempts[i].kind = "authfault"
             /\ (~auto_refresh \/ RefreshedBefore(i)))
           => /\ pc = "done"
              /\ i = Len(attempts)
              /\ result = Raised("AuthorizationFaultError", i)

FirstAuthFault(i) ==
    /\ attempts[i].kind = "authfault"
    /\ \A k \in 1..(i - 1) : attempts[k].kind # "authfault"

\* C4: with auto-refresh enabled, the first authorization fault of a call,
\* on whichever attempt, is followed by a credential refresh and then by
\* another invocation; it is not raised without a refresh.
C4_FirstFaultRefreshes ==
    auto_refresh =>
        \A i \in 1..Len(attempts) :
            FirstAuthFault(i)
              => /\ \E r \in 1..Len(refreshes) : refreshes[r] = i
                 /\ pc = "loop" \/ Len(attempts) > i

\* C5: an HTTP failure with a malformed body, on any attempt, ends the call
\* there with the original HTTP error: no further invocation, no sleep and
\* no refresh after it.
C5_MalformedBodyPropagates ==
    \A i \in 1..Len(attempts) :
        (attempts[i].kind = "http" /\ ~attempts[i].body.json)
          => /\ pc = "done"
             /\ i = Len(attempts)
             /\ result = Raised("HttpError", i)
             /\ \A k \in 1..Len(sleeps) : sleeps[k].after # i
             /\ \A r \in 1..Len(refreshes) : refreshes[r] # i

\* An error that is neither transient, nor a rate-limit 403, nor an
\* authorization fault.
NotRetryable(o) ==
    \/ o.kind = "other"
    \/ o.kind = "http" /\ ~RateLimited(o)

\* C6: an error that is not transient, not a rate-limit 403 and not an
\* authorization fault ends the call on its attempt and reaches the caller
\* with its kind unchanged.
C6_OtherErrorsPropagateUnchanged ==
    \A i \in 1..Len(attempts) :
        NotRetryable(attempts[i])
          => /\ pc = "done"
             /\ i = Len(attempts)
             /\ result = Raised(attempts[i].val, i)

-----------------------------------------------------------------------------
(* Properties of list_changes, under SpecChanges *)

StrictlyIncreasing(ids) ==
    \A i \in 2..Len(ids) : ids[i] > ids[i - 1]

\* The record list_changes is to return for an item.
ExpectedChange(item) ==
    [key |-> item.id,
     entry_id |-> item.fileId,
     was_deleted |-> item.deleted,
     normalized_entry |->
         IF item.deleted THEN [normalized_by |-> "", raw |-> None]
         ELSE [normalized_by |-> "list_changes", raw |-> item.fileId]]

\* C7: for a page the service returned, list_changes either raises, or
\* returns one record per item, in item order, with strictly increasing
\* change ids; a page with an item whose id is not greater than the id of
\* the item before it always raises.
C7_PageInOrderOrRaises ==
    (op = "list_changes" /\ response.served) =>
        LET items == response.items
        IN /\ \/ mresult = MRaised("Exception")
              \/ /\ mresult.kind = "return"
                 /\ Len(mresult.data) = Len(items)
                 /\ \A i \in 1..Len(items) :
                        mresult.data[i] = ExpectedChange(items[i])
                 /\ StrictlyIncreasing(Keys(mresult.data))
           /\ (\E i \in 2..Len(items) : items[i].id <= items[i - 1].id)
                 => mresult = MRaised("Exception")

\* C8: over one traversal of the feed the change ids returned are strictly
\* increasing across page boundaries: the first id of a returned page is
\* greater than the last id of the page returned before it.
C8_IncreasingAcrossPages ==
    \A p \in 2..Len(feed) :
        (feed[p] # <<>> /\ feed[p - 1] # <<>>)
          => feed[p][1] > feed[p - 1][Len(feed[p - 1])]

-----------------------------------------------------------------------------
(* Properties of get_children_under_parent_id and list_files, under
   SpecManager *)

\* C9: get_children_under_parent_id with both query strings given raises,
\* and the call has issued no network round trip: no children listing and
\* no discovery fetch.
C9_BothQueriesNoNetwork ==
    (/\ op = "get_children_under_parent_id"
     /\ args.qc \notin {None, ""}
     /\ args.qi \notin {None, ""})
      => /\ mresult.kind = "raise"
         /\ network = <<>>

\* The requests of the current operation that list files.
FileRequests == SelectSeq(network, LAMBDA r : r.req = "files.list")

RECURSIVE ExpectedEntries(_)
ExpectedEntries(pages) ==
    IF pages = <<>> THEN <<>>
    ELSE [i \in 1..Len(pages[1].items) |->
             [normalized_by |-> "list_files", raw |-> pages[1].items[i]]]
         \o ExpectedEntries(Tail(pages))

\* C10: list_files issues one request per page, the first without a page
\* token and each later one with the token of the page before; it goes on
\* while pages carry a token and stops at the first page without one,
\* returning the entries of all pages in page order; every request carries
\* the same query, which has a "<flag> = false" conjunct for every
\* configured hidden flag.
C10_ListFilesFollowsPages ==
    op = "list_files" =>
        /\ \A i \in 1..Len(served) :
              served[i].next = NoToken
                => /\ i = Len(served)
                   /\ mresult.kind = "return"
        /\ mresult.kind = "return"
             => /\ served # <<>>
                /\ served[Len(served)].next = NoToken
                /\ mresult.data = ExpectedEntries(served)
        /\ mresult.kind \in {"none", "return"}
             => /\ Len(FileRequests) = Len(served)
                /\ \A i \in 1..Len(FileRequests) :
                      /\ FileRequests[i].token =
                             IF i = 1 THEN None ELSE served[i - 1].next
                      /\ FileRequests[i].q = query
                      /\ \A f \in 1..Len(hidden_flags) :
                            \E c \in 1..Len(FileRequests[i].q.conj) :
                               FileRequests[i].q.conj[c] =
                                   [what |-> hidden_flags[f],
                                    arg |-> "= false", escaped |-> FALSE]

C10_Witness ==
    /\ op = "list_files"
    /\ mresult.kind = "return"
    /\ Len(served) = 3
    /\ Len(served[1].items) = 2
    /\ Len(served[2].items) = 2
    /\ Len(served[3].items) = 1
    /\ served[1].next # served[2].next
    /\ Len(hidden_flags) = 2
    /\ Truthy(args.qi)
    /\ Len(mresult.data) = 5
    /\ Len(FileRequests) = 3

-----------------------------------------------------------------------------
(* The backoff of the proxied call, under SpecProxy *)

\* 2^k for the attempts of one call.
TwoToThe(k) == << 1, 2, 4, 8, 16 >>[k + 1]

-----------------------------------------------------------------------------
(* Properties of download_to_local, under SpecDownload *)

\* The invocation went past the test of the mime type and the making of the
\* temporary directory.
ReachedCacheTest(d) == d.result.val \notin {"ExportFormatError", "OSError"}

SuccessfulFreshDownload(d) == d.result.kind = "return" /\ d.result.changed

\* C11: an invocation that reaches the cache test takes the cached file
\* exactly when allow_cache is true, the file exists and its mtime equals
\* the remote modification time; it then returns the size of the file and
\* changed = False, requests no chunk and leaves the file as it was.  In
\* every other case the file is downloaded, and an invocation that returns
\* has requested chunks into the newly opened file and returns
\* changed = True.
C11_CacheHitIffValid ==
    [][ ReachedCacheTest(dl')
          => /\ dl'.use_cache
                  <=> /\ dl'.allow_cache
                      /\ file.exists
                      /\ file.mtime = dl'.entry.modified_date.sec
             /\ dl'.use_cache
                  => /\ dl'.result = DReturned(Len(file.content), FALSE)
                     /\ dl'.requests = 0
                     /\ ~dl'.opened
                     /\ file' = file
             /\ (~dl'.use_cache /\ dl'.result.kind = "return")
                  => /\ dl'.result.changed
                     /\ dl'.opened
                     /\ dl'.requests >= 1
                     /\ file'.content = Chunks(dl'.requests)
       ]_vars

C11_Witness ==
    /\ dl.use_cache
    /\ dl.allow_cache
    /\ dl.result = DReturned(MaxChunks, FALSE)
    /\ file = StoredFile(dl.entry.modified_date.sec, Chunks(MaxChunks))
    /\ clock > file.mtime

\* C12: a successful download leaves the file with the remote modification
\* time (in whole seconds) as its mtime, whatever the time of the download.
\* The next invocation for the entry with allow_cache and the same remote
\* modification time takes the cached file; with the remote modification
\* time advanced by one it does not, and when it returns the mtime of the
\* file is the new remote modification time.
C12_MTimeIsRemoteTime ==
    [][ /\ SuccessfulFreshDownload(dl')
          => file'.mtime = dl'.entry.modified_date.sec
        /\ ( /\ SuccessfulFreshDownload(dl)
             /\ ReachedCacheTest(dl')
             /\ dl'.allow_cache
             /\ dl'.entry.modified_date.sec = dl.entry.modified_date.sec )
          => /\ dl'.use_cache
             /\ dl'.result = DReturned(dl.result.size, FALSE)
             /\ file' = file
        /\ ( /\ SuccessfulFreshDownload(dl)
             /\ ReachedCacheTest(dl')
             /\ dl'.entry.modified_date.sec = dl.entry.modified_date.sec + 1 )
          => /\ ~dl'.use_cache
             /\ dl'.result.kind = "return"
                  => /\ dl'.result.changed
                     /\ file'.mtime = dl'.entry.modified_date.sec
       ]_vars

C12_Witness ==
    /\ SuccessfulFreshDownload(dl)
    /\ dl.allow_cache
    /\ dl.entry.modified_date = [sec |-> 1, usec |-> 500000]
    /\ file = StoredFile(1, Chunks(MaxChunks))
    /\ clock = MaxTime

\* C13: an invocation whose mime_type is not the native type of the entry
\* and has no download link raises ExportFormatError, has requested no
\* chunk, has not opened the file and leaves whatever is at the target path
\* as it was, whatever allow_cache is and whether or not a file is there.
C13_ExportFormatErrorFirst ==
    [][ ( /\ dl'.mime_type # dl'.entry.mime_type
          /\ dl'.mime_type \notin dl'.entry.download_links )
          => /\ dl'.result = DRaised("ExportFormatError")
             /\ dl'.requests = 0
             /\ ~dl'.opened
             /\ ~dl'.use_cache
             /\ file' = file
       ]_vars

C13_Witness ==
    /\ dl.result = DRaised("ExportFormatError")
    /\ dl.mime_type = "text/html"
    /\ dl.allow_cache
    /\ file = StoredFile(dl.entry.modified_date.sec, Chunks(1))

-----------------------------------------------------------------------------
(* Properties of get_client and drive_proxy *)

Finished(t) == ctx[t].pc = "done"

\* C14 (SpecClient, calls that do not overlap): a client once memoized is
\* never replaced.  A call that finds a client memoized returns that client
\* and fetches nothing.  A call that finds none runs build() once; when
\* build() fails the call raises and no client is memoized, when it succeeds
\* the call returns the client it built, which is memoized.
C14_ClientMemoized ==
    [][ /\ \A i \in DOMAIN proxies :
             proxies[i] # NoClient => proxies'[i] = proxies[i]
        /\ \A t \in DOMAIN ctx' :
             (ctx[t].pc # "done" /\ ctx'[t].pc = "done")
               => LET c == ctx'[t]
                  IN /\ c.had # NoClient
                          => /\ c.got = c.had
                             /\ c.fetched = 0
                             /\ ~c.raised
                     /\ (c.had = NoClient /\ c.raised)
                          => /\ c.fetched = 1
                             /\ c.got = NoClient
                             /\ proxies'[c.my] = NoClient
                     /\ (c.had = NoClient /\ ~c.raised)
                          => /\ c.fetched = 1
                             /\ c.got = c.client
                             /\ c.got # NoClient
                             /\ proxies'[c.my] = c.got
       ]_vars

\* A build failed, the next call built client 2, and the call after it was
\* given client 2 without a fetch.
C14_Witness ==
    /\ builds = 2
    /\ proxies = << 2 >>
    /\ Finished(1) /\ ctx[1].had = 2 /\ ctx[1].got = 2 /\ ctx[1].fetched = 0
    /\ Finished(2) /\ ctx[2].had = NoClient /\ ctx[2].got = 2

\* C15 (SpecContexts, calls that overlap): one proxy is constructed at most,
\* and the contexts whose calls returned were all given the same proxy and
\* the same client.
C15_InitializedOnce ==
    /\ Len(proxies) <= 1
    /\ \A t, u \in DOMAIN ctx :
          (Finished(t) /\ ~ctx[t].raised /\ Finished(u) /\ ~ctx[u].raised)
            => /\ ctx[t].my = ctx[u].my
               /\ ctx[t].got = ctx[u].got

-----------------------------------------------------------------------------
(* Properties of the entry operations *)

IsUpdate == ecall.op \in {"update_entry", "truncate", "rename"}
BodySent == \E k \in 1..Len(ecall.sent) : ecall.sent[k].req = "files.update"

\* The optional fields of the body and the parameters they come from.
OptionalFields ==
    { <<"filename", "title">>, <<"parents", "parents">>,
      <<"is_hidden", "labels">>, <<"description", "description">>,
      <<"accessed_datetime", "lastViewedByMeDate">> }

\* C16 (SpecEntries): the body of an update request has the modification
\* date, which is the caller's modified_datetime when one was passed and the
\* current time otherwise; and each of title, parents, labels, description
\* and lastViewedByMeDate is in the body only if update_entry was passed the
\* parameter it comes from.
C16_BodyOnlySuppliedFields ==
    (IsUpdate /\ BodySent)
      => /\ "modifiedDate" \in DOMAIN ecall.body
         /\ ecall.body["modifiedDate"] =
              IF ecall.kw["modified_datetime"] # Unsupplied
              THEN ecall.kw["modified_datetime"] ELSE NowStamp
         /\ \A pf \in OptionalFields :
               pf[2] \in DOMAIN ecall.body => ecall.kw[pf[1]] # Unsupplied

\* C18 (SpecEntries): when files().get answers 'not found', the error of
\* get_entry is not of the kind it raises for the other HTTP failures
\* (HttpError).
C18_NotFoundDistinct ==
    ( /\ ecall.op = "get_entry"
      /\ ecall.answers = << Http(NotFoundBody) >> )
      => /\ ecall.result.kind = "raise"
         /\ ecall.result.val # "HttpError"

\* The answer of the service to a delete of a file that does not exist.
ResourceMissing(a) == a.kind = "http" /\ a.body.json /\ a.body.code = 404

\* C17 (SpecRemove): an invocation of remove_entry whose delete is answered
\* with 'resource missing' raises NameError, which no other answer makes it
\* raise; proxied_method does not handle it: that invocation is the last of
\* the call (the only one when it is the first), no sleep and no refresh
\* follow it, and the caller gets the NameError.  Every other failed delete
\* leaves remove_entry as the exception execute() raised.
C17_MissingIsNameErrorOnce ==
    /\ Len(ecall.answers) = Len(attempts)
    /\ \A k \in 1..Len(attempts) :
          LET a == ecall.answers[k]
              o == attempts[k]
          IN /\ ResourceMissing(a)
                  => /\ o = Other("NameError")
                     /\ k = Len(attempts)
                     /\ pc = "done"
                     /\ result = Raised("NameError", k)
                     /\ \A i \in 1..Len(sleeps) : sleeps[i].after # k
                     /\ \A i \in 1..Len(refreshes) : refreshes[i] # k
             /\ (~ResourceMissing(a) /\ a.kind \notin {"ok", "none"})
                  => /\ o = a
                     /\ o.val # "NameError"

C17_Witness ==
    /\ pc = "done"
    /\ ecall.answers = << Http(NotFoundBody) >>
    /\ attempts = << Other("NameError") >>
    /\ result = Raised("NameError", 1)
    /\ sleeps = <<>>
    /\ refreshes = <<>>

-----------------------------------------------------------------------------
(* Properties of the proxied download, under SpecProxiedDownload *)

\* An invocation before the last one failed with a transient error: a chunk
\* request raised it, after the file was opened.
FailedMidTransfer ==
    \E k \in 1..(Len(attempts) - 1) : attempts[k].kind = "transient"

\* C20: when an invocation of a proxied download failed with a transient
\* error of a chunk request and the call returned from a later invocation,
\* that invocation opened the file anew and requested the chunks from the
\* first one: the file holds exactly the chunks it requested, the call
\* returns their number with changed = True, and the mtime of the file is
\* the remote modification time.
C20_RetryRestartsDownload ==
    (pc = "done" /\ result.kind = "return" /\ result.att # 0
       /\ FailedMidTransfer)
      => /\ dl.opened
         /\ ~dl.use_cache
         /\ dl.requests >= 1
         /\ file = StoredFile(dl.entry.modified_date.sec, Chunks(dl.requests))
         /\ result.val = SizeChanged(dl.requests, TRUE)

-----------------------------------------------------------------------------
(* The cached file over several calls of download_to_local, under          *)
(* SpecDownload                                                            *)

\* The last invocation opened the file and a chunk request raised: what is
\* at the target path is the part of the content written before the error.
LeftPartialFile(d) == d.opened /\ d.result.kind = "raise"

\* C21: the file that a failed transfer left at the target path is not taken
\* as the cached file by the call that follows it: a call reports a cache hit
\* only for a file that a finished download left.
C21_NoHitOnPartialFile ==
    [][ LeftPartialFile(dl) => ~dl'.use_cache ]_vars

-----------------------------------------------------------------------------
(* Properties of the proxied listing, under SpecProxiedList *)

\* Invocation k of the call failed with a transient or rate-limit error of
\* the request for a page after the first.
FailedAfterFirstPage(k) ==
    /\ ~tries[k].ok
    /\ tries[k].pages >= 1
    /\ TransientOrRateLimit(attempts[k])

\* C23: when an invocation of a proxied list_files failed with a transient
\* or rate-limit error while it requested a page after the first and the
\* call returned from a later invocation, that invocation requested the
\* pages from the first one (no page token) on, each with the token of the
\* page before, and the call returns the entries of exactly the pages it was
\* served, each once, in page order.
C23_RetryRestartsPagination ==
    ( /\ pc = "done"
      /\ result.kind = "return"
      /\ result.att # 0
      /\ \E k \in 1..(Len(tries) - 1) : FailedAfterFirstPage(k) )
      => /\ Len(tries) = Len(attempts)
         /\ result.att = Len(attempts)
         /\ tries[Len(tries)] = Try(Len(served), TRUE)
         /\ served[Len(served)].next = NoToken
         /\ result.val = ExpectedEntries(served)
         /\ Len(FileRequests) = Len(served)
         /\ \A i \in 1..Len(FileRequests) :
               FileRequests[i].token =
                   IF i = 1 THEN None ELSE served[i - 1].next

C23_Witness ==
    /\ pc = "done"
    /\ result.kind = "return"
    /\ Len(attempts) = 3
    /\ attempts[1].kind = "transient"
    /\ RateLimited(attempts[2])
    /\ tries = << Try(2, FALSE), Try(1, FALSE), Try(MaxPages, TRUE) >>
    /\ served[1].items = << "b", "a" >>
    /\ Len(result.val) = MaxPages + 1

-----------------------------------------------------------------------------
(* Properties of the proxied get_entries, under SpecNested *)

\* C22: a proxied get_entries that returns gives, for every requested id in
\* order, the normalized entry fetched for that id (none missing, none
\* None); and get_entry is invoked at most 5 times per id in one call.
C22_EveryIdFetchedWithinBudget ==
    /\ (pc = "done" /\ result.kind = "return" /\ result.att # 0)
          => /\ Len(result.val) = Len(nest.ids)
             /\ \A i \in 1..Len(nest.ids) :
                   result.val[i] =
                       [normalized_by |-> "direct_read", raw |-> nest.ids[i]]
    /\ \A i \in 1..Len(nest.invocations) : nest.invocations[i] <= 5

=============================================================================
